---- MODULE Spec2Model ----
(***************************************************************************)
(* The batched page-classification-and-extraction pipelines of the         *)
(* repository: extract_image_info.py, extract_na_docs_from_pdf.py,          *)
(* tesseract_extract_content_from_scanned.py,                               *)
(* tesseract_extract_na_docs_pdf.py and                                     *)
(* deepseek_extract_content_from_scanned.py.  The five scripts share one    *)
(* main(): a batch loop over the rasterized pages, one classification call  *)
(* per batch, sorted(set(...)) over the collected pages, and a PdfWriter    *)
(* copy loop.  They differ in the fields analyze_batch indexes, in the      *)
(* OCR step before the call and in the guard of the copy loop; the          *)
(* variable `variant` selects the script.                                   *)
(* Two further machines stand beside it: the aggregation alone (AggSpec),   *)
(* and the single-call scripts mistral-extract_na_docs.py and               *)
(* gpt-4o-extract_*.py (SingleSpec).                                        *)
(***************************************************************************)
EXTENDS Integers, Sequences, FiniteSets

VARIABLES
    variant,          \* which of the five scripts runs
    input_exists,     \* os.path.exists(INPUT_PDF)
    doc_pages,        \* number of pages of the document on disk
    BATCH_SIZE,       \* the module-level BATCH_SIZE
    pc,               \* position in main()
    total_pages,      \* len(all_images)
    i,                \* the loop variable of range(0, total_pages, BATCH_SIZE)
    start_page,       \* start_page of the current batch
    batch_len,        \* len(batch_images) of the current batch
    ocr_idx,          \* pages of the current batch already OCRed
    ocr_attempt,      \* generate() attempt on the current page (deepseek)
    response,         \* outcome of the last classification call, until the loop header is left
    cls_calls,        \* classification calls made for the current batch
    pages_in_batch,   \* return value of analyze_batch for the last parsed batch
    identified_pages, \* the aggregate list
    final_pages,      \* sorted(set(identified_pages))
    finalized,        \* final_pages has been computed
    copy_idx,         \* elements of final_pages the copy loop has handled
    writer_pages,     \* source page numbers added to the PdfWriter, in order
    file_written,     \* the output file exists
    output_pages,     \* source page numbers of the written file, in order
    outcome,          \* running / input_missing / no_matches / output_written / aborted
    abort_cause,      \* the uncaught exception that ended main(), if any
    batch_log,        \* per batch: its range, its call's outcome, its returned pages
    reported,         \* match entries the backend has reported so far in the run
    labelled          \* the "--- PAGE n ---" labels sent to the classifier, in order

\* The aggregation alone, main()'s extend and sorted(set(...)), applied to
\* per-batch page lists given in advance: once in the given order, once in a
\* permuted order, and once with every list added a second time.
VARIABLES
    a_pc,             \* off / feed / again / finalize / done
    a_lists,          \* the per-batch page lists
    a_order,          \* a permutation of the lists' indices
    a_pos,            \* lists added so far in the current pass
    a_nat,            \* identified_pages, lists added in the given order
    a_perm,           \* identified_pages, lists added in the order a_order
    a_twice,          \* identified_pages, every list added in two passes
    a_fin_nat,        \* sorted(set(a_nat)), or the TypeError
    a_fin_perm,       \* sorted(set(a_perm)), or the TypeError
    a_fin_twice       \* sorted(set(a_twice)), or the TypeError

\* The single-call scripts: mistral-extract_na_docs.py and the two
\* gpt-4o-extract_*.py, which send the whole document in one request.
VARIABLES
    s_script,         \* "mistral" or "gpt4o"
    s_input_exists,   \* the input PDF is on disk
    s_doc_pages,      \* len(reader.pages) of the input PDF
    s_pc,             \* position in main()
    s_markdown,       \* mistral: markdown_text: "none" (None), "empty" ("") or "text"
    s_total_pages,    \* mistral: len(ocr_response.pages), 0 after a failure
    s_response,       \* outcome of the classification call
    s_calls,          \* classification calls made
    s_pages,          \* mistral: target_pages; gpt4o: pages
    s_copy_idx,       \* elements of s_pages the copy loop has handled
    s_writer_pages,   \* source page numbers added to the PdfWriter, in order
    s_file_written,   \* the output file exists
    s_output_pages,   \* source page numbers of the written file, in order
    s_outcome,        \* running / input_missing / ocr_failed / no_text / no_matches / output_written / aborted
    s_cause           \* the uncaught exception that ended main(), if any

vars == << variant, input_exists, doc_pages, BATCH_SIZE, pc, total_pages, i,
           start_page, batch_len, ocr_idx, ocr_attempt, response, cls_calls,
           pages_in_batch, identified_pages, final_pages, finalized, copy_idx,
           writer_pages, file_written, output_pages, outcome, abort_cause,
           batch_log, reported, labelled,
           a_pc, a_lists, a_order, a_pos, a_nat, a_perm, a_twice, a_fin_nat,
           a_fin_perm, a_fin_twice,
           s_script, s_input_exists, s_doc_pages, s_pc, s_markdown, s_total_pages,
           s_response, s_calls, s_pages, s_copy_idx, s_writer_pages,
           s_file_written, s_output_pages, s_outcome, s_cause >>

aggVars == << a_pc, a_lists, a_order, a_pos, a_nat, a_perm, a_twice, a_fin_nat,
              a_fin_perm, a_fin_twice >>
singleVars == << s_script, s_input_exists, s_doc_pages, s_pc, s_markdown,
                 s_total_pages, s_response, s_calls, s_pages, s_copy_idx,
                 s_writer_pages, s_file_written, s_output_pages, s_outcome, s_cause >>
\* what the batched main() never touches
otherVars == << aggVars, singleVars >>

-----------------------------------------------------------------------------
(* Bounds of the model *)

\* largest document, in pages
MaxPages == 3
\* largest batch size tried
MaxBatch == 2
\* match entries the backend reports over one run, all batches together
MaxMatches == 2

-----------------------------------------------------------------------------
(* The five scripts and what distinguishes them *)

Variants == {"image_info", "na_docs_pdf", "tess_content", "tess_na", "deepseek"}

\* batch sizes tried: the positive ones, zero and a negative one
BatchSizes == {0 - 1, 0} \cup (1..MaxBatch)

ShapeNA == {"country_detected", "doc_type"}

\* the keys analyze_batch indexes with m[...] besides 'page'
RequiredFields(v) ==
    CASE v = "image_info"   -> {"objects_detected"}
      [] v = "na_docs_pdf"  -> ShapeNA
      [] v = "tess_content" -> {}
      [] v = "tess_na"      -> ShapeNA
      [] v = "deepseek"     -> ShapeNA

\* the evidence keys the script's prompt asks the backend to return
PromptFields(v) ==
    CASE v = "image_info"   -> {"objects_detected", "description"}
      [] v = "na_docs_pdf"  -> ShapeNA
      [] v = "tess_content" -> {"snippet_found"}
      [] v = "tess_na"      -> ShapeNA
      [] v = "deepseek"     -> {"section_detected", "confidence"}

\* the scripts that OCR each page of the batch before the classification call
HasOcr(v) == v \in {"tess_content", "tess_na", "deepseek"}

\* the scripts whose copy loop tests 1 <= p_num <= total_pages
CopyGuarded(v) == v \in {"image_info", "na_docs_pdf", "tess_content"}

-----------------------------------------------------------------------------
(* Values of the response *)

\* the 'page' key of an entry: absent, a non-numeric string, or an integer
Missing == [t |-> "missing", v |-> 0]
StrVal == [t |-> "str", v |-> 0]
IntVal(n) == [t |-> "int", v |-> n]

IsInt(x) == x.t = "int"

\* page values the backend may report for a document of n pages
PageVals(n) == {Missing, StrVal} \cup {IntVal(p) : p \in 0..(n + 1)}

\* the evidence keys an entry may carry: what the prompt asks for, or none
FieldShapes(v) == {PromptFields(v), {}}

Entries(v, n) == [page : PageVals(n), fields : FieldShapes(v)]

SeqsUpTo(S, n) == UNION {[1..k -> S] : k \in 0..n}

NoResponse == [kind |-> "none", matches |-> << >>]

\* what the classification call can give: the request raises, the payload is
\* not JSON, or a JSON object with a 'matches' list
Outcomes(v, n, room) ==
    {[kind |-> "raise", matches |-> << >>], [kind |-> "badjson", matches |-> << >>]}
    \cup {[kind |-> "json", matches |-> ms] : ms \in SeqsUpTo(Entries(v, n), room)}

Range(s) == {s[k] : k \in 1..Len(s)}

Min(a, b) == IF a <= b THEN a ELSE b

-----------------------------------------------------------------------------
(* The batch loop: range(0, total_pages, BATCH_SIZE) and the slice *)

\* start_page = i + 1
StartPageOf(idx) == idx + 1

\* len(all_images[i : i + BATCH_SIZE])
SliceLen(idx, n, b) == Min(b, n - idx)

\* the label of each page of a batch: start_page_num + index
LabelsOfFromZero(start, len) == [k \in 1..len |-> start + k]
LabelsOf(start, len) == [k \in 1..len |-> start + (k - 1)]

NextOffsetSkip(idx, b) == idx + b + 1
\* the next value of range(0, total_pages, BATCH_SIZE)
NextOffset(idx, b) == idx + b

\* range(0, total_pages, BATCH_SIZE) still yields a value
RangeHasNext(idx, n, b) == b > 0 /\ idx < n

-----------------------------------------------------------------------------
(* analyze_batch / analyze_text_batch *)

\* the for loop over matches raises KeyError at the first entry that lacks
\* 'page' or a key the print statement indexes
EntryRaises(v, m) == m.page = Missing \/ ~(RequiredFields(v) \subseteq m.fields)

\* a parser that would skip the raising entry and keep the others
AnalyzeBatchReturnPerEntry(v, r) ==
    IF r.kind # "json" THEN << >>
    ELSE LET ok == SelectSeq(r.matches, LAMBDA m : ~EntryRaises(v, m)) IN
         [k \in 1..Len(ok) |-> ok[k].page]

\* the value analyze_batch returns: [] from the except branch, else m['page']
\* of every entry, in the response's order
AnalyzeBatchReturn(v, r) ==
    IF r.kind # "json" THEN << >>
    ELSE IF \E k \in 1..Len(r.matches) : EntryRaises(v, r.matches[k]) THEN << >>
    ELSE [k \in 1..Len(r.matches) |-> r.matches[k].page]

ExtendPagesAssign(identified, pages) == pages
\* identified_pages.extend(pages_in_batch)
ExtendPages(identified, pages) == identified \o pages

-----------------------------------------------------------------------------
(* final_pages = sorted(set(identified_pages)) *)

MinOf(S) == CHOOSE x \in S : \A y \in S : x <= y

RECURSIVE SortedSeqOf(_)
SortedSeqOf(S) ==
    IF S = {} THEN << >>
    ELSE LET m == MinOf(S) IN << m >> \o SortedSeqOf(S \ {m})

\* sorted() compares an int with a str: TypeError
SortedRaises(identified) ==
    \E a \in Range(identified), b \in Range(identified) : a.t # b.t

RECURSIVE FirstSeen(_)
FirstSeen(q) ==
    IF q = << >> THEN << >>
    ELSE LET init == FirstSeen(SubSeq(q, 1, Len(q) - 1)) IN
         IF q[Len(q)] \in Range(init) THEN init ELSE Append(init, q[Len(q)])

RECURSIVE InsertSorted(_, _)
InsertSorted(q, x) ==
    IF q = << >> THEN << x >>
    ELSE IF x.v <= q[1].v THEN << x >> \o q
    ELSE << q[1] >> \o InsertSorted(Tail(q), x)

RECURSIVE SortedSeq(_)
SortedSeq(q) ==
    IF q = << >> THEN << >>
    ELSE InsertSorted(SortedSeq(SubSeq(q, 1, Len(q) - 1)), q[Len(q)])

\* list(dict.fromkeys(identified_pages)): duplicates collapse, nothing is sorted
SortedSetFirstSeen(identified) == FirstSeen(identified)

\* sorted(identified_pages): sorted, duplicates kept
SortedSetKeepDups(identified) == SortedSeq(identified)

\* set() collapses equal values, sorted() orders them ascending
SortedSet(identified) ==
    LET vals == Range(identified) IN
    IF \A x \in vals : IsInt(x)
    THEN LET s == SortedSeqOf({x.v : x \in vals}) IN [k \in 1..Len(s) |-> IntVal(s[k])]
    ELSE [k \in 1..Cardinality(vals) |-> StrVal]

-----------------------------------------------------------------------------
(* The copy loop: writer.add_page(reader.pages[p - 1]) *)

\* reader.pages[idx]: a negative index counts from the end of the document;
\* 0 stands for IndexError, otherwise the 1-based source page selected
PdfPageAt(idx, n) ==
    LET j == IF idx < 0 THEN n + idx ELSE idx IN
    IF j < 0 \/ j >= n THEN 0 ELSE j + 1

\* what one iteration of the copy loop does with final_pages element p:
\* "type_error", "index_error", "skip", or "add" with the source page
CopyStep(v, p, n_total, n_doc) ==
    IF ~IsInt(p) THEN [act |-> "type_error", src |-> 0]
    ELSE IF CopyGuarded(v)
         THEN IF 1 <= p.v /\ p.v <= n_total
              THEN [act |-> "add", src |-> PdfPageAt(p.v - 1, n_doc)]
              ELSE [act |-> "skip", src |-> 0]
         ELSE IF PdfPageAt(p.v - 1, n_doc) = 0
              THEN [act |-> "index_error", src |-> 0]
              ELSE [act |-> "add", src |-> PdfPageAt(p.v - 1, n_doc)]

-----------------------------------------------------------------------------
(* The machines that are not running *)

NoResult == [raised |-> FALSE, pages |-> << >>]

\* the aggregation machine is not running
AggOff ==
    /\ a_pc = "off"
    /\ a_lists = << >>
    /\ a_order = << >>
    /\ a_pos = 0
    /\ a_nat = << >>
    /\ a_perm = << >>
    /\ a_twice = << >>
    /\ a_fin_nat = NoResult
    /\ a_fin_perm = NoResult
    /\ a_fin_twice = NoResult

\* no single-call script is running
SingleOff ==
    /\ s_script = "none"
    /\ s_input_exists = FALSE
    /\ s_doc_pages = 0
    /\ s_pc = "off"
    /\ s_markdown = "none"
    /\ s_total_pages = 0
    /\ s_response = NoResponse
    /\ s_calls = 0
    /\ s_pages = << >>
    /\ s_copy_idx = 0
    /\ s_writer_pages = << >>
    /\ s_file_written = FALSE
    /\ s_output_pages = << >>
    /\ s_outcome = "running"
    /\ s_cause = "none"

-----------------------------------------------------------------------------
(* The state machine of main() *)

\* the locals of the batched main() before its first statement
MainLocals ==
    /\ total_pages = 0
    /\ i = 0
    /\ start_page = 0
    /\ batch_len = 0
    /\ ocr_idx = 0
    /\ ocr_attempt = 1
    /\ response = NoResponse
    /\ cls_calls = 0
    /\ pages_in_batch = << >>
    /\ identified_pages = << >>
    /\ final_pages = << >>
    /\ finalized = FALSE
    /\ copy_idx = 0
    /\ writer_pages = << >>
    /\ file_written = FALSE
    /\ output_pages = << >>
    /\ outcome = "running"
    /\ abort_cause = "none"
    /\ batch_log = << >>
    /\ reported = 0
    /\ labelled = << >>

\* no batched script is running
MainOff ==
    /\ variant = "image_info"
    /\ input_exists = FALSE
    /\ doc_pages = 0
    /\ BATCH_SIZE = MaxBatch
    /\ pc = "off"
    /\ MainLocals

Init ==
    /\ variant \in Variants
    /\ input_exists \in BOOLEAN
    /\ doc_pages \in 0..MaxPages
    /\ BATCH_SIZE \in BatchSizes
    /\ pc = "start"
    /\ MainLocals
    /\ AggOff
    /\ SingleOff

batchVars == << start_page, batch_len, ocr_idx, ocr_attempt, response, cls_calls,
                pages_in_batch, batch_log, reported, labelled >>
tailVars == << final_pages, finalized, copy_idx, writer_pages, file_written,
               output_pages >>
configVars == << variant, input_exists, doc_pages, BATCH_SIZE >>

\* an uncaught exception leaves main()
Abort(cause) ==
    /\ pc' = "done"
    /\ outcome' = "aborted"
    /\ abort_cause' = cause

\* main(): the input file is missing: print and return
InputMissing ==
    /\ pc = "start"
    /\ ~input_exists
    /\ pc' = "done"
    /\ outcome' = "input_missing"
    /\ UNCHANGED << configVars, otherVars, total_pages, i, batchVars, identified_pages,
                    tailVars, abort_cause >>

\* a main() without the os.path.exists test
ConvertPdfUnchecked ==
    /\ pc = "start"
    /\ total_pages' = doc_pages
    /\ identified_pages' = << >>
    /\ i' = 0
    /\ pc' = "loop"
    /\ UNCHANGED << configVars, otherVars, batchVars, tailVars, outcome, abort_cause >>

\* main(): convert_from_path, total_pages = len(all_images), identified_pages = []
ConvertPdf ==
    /\ pc = "start"
    /\ input_exists
    /\ total_pages' = doc_pages
    /\ identified_pages' = << >>
    /\ i' = 0
    /\ pc' = "loop"
    /\ UNCHANGED << configVars, otherVars, batchVars, tailVars, outcome, abort_cause >>

\* range(0, total_pages, 0) raises ValueError
RangeStepZero ==
    /\ pc = "loop"
    /\ BATCH_SIZE = 0
    /\ Abort("range_step_zero")
    /\ UNCHANGED << configVars, otherVars, total_pages, i, batchVars, identified_pages, tailVars >>

\* the loop header yields the next offset: slice the batch, compute start_page
StartBatch ==
    /\ pc = "loop"
    /\ RangeHasNext(i, total_pages, BATCH_SIZE)
    /\ start_page' = StartPageOf(i)
    /\ batch_len' = SliceLen(i, total_pages, BATCH_SIZE)
    /\ batch_log' = Append(batch_log, [start |-> StartPageOf(i),
                                       len |-> SliceLen(i, total_pages, BATCH_SIZE),
                                       kind |-> "pending", pages |-> << >>])
    /\ ocr_idx' = 0
    /\ ocr_attempt' = 1
    /\ cls_calls' = 0
    /\ response' = NoResponse
    /\ pc' = IF HasOcr(variant) THEN "ocr" ELSE "call"
    /\ UNCHANGED << configVars, otherVars, total_pages, i, pages_in_batch, reported,
                    labelled, identified_pages, tailVars, outcome, abort_cause >>

\* the range is exhausted (or empty, for a negative step): leave the loop
ExitLoop ==
    /\ pc = "loop"
    /\ BATCH_SIZE # 0
    /\ ~RangeHasNext(i, total_pages, BATCH_SIZE)
    /\ response' = NoResponse
    /\ pc' = "finalize"
    /\ UNCHANGED << configVars, otherVars, total_pages, i, start_page, batch_len, ocr_idx,
                    ocr_attempt, cls_calls, pages_in_batch, batch_log, reported,
                    labelled, identified_pages, tailVars, outcome, abort_cause >>

\* the OCR of the next page of the batch returns its text
OcrPageOk ==
    /\ pc = "ocr"
    /\ ocr_idx < batch_len
    /\ ocr_idx' = ocr_idx + 1
    /\ ocr_attempt' = 1
    /\ pc' = IF ocr_idx + 1 = batch_len THEN "call" ELSE "ocr"
    /\ UNCHANGED << configVars, otherVars, total_pages, i, start_page, batch_len, response,
                    cls_calls, pages_in_batch, batch_log, reported,
                    labelled, identified_pages, tailVars, outcome, abort_cause >>

\* the OCR of the next page raises.  tess_content: extract_text_from_image
\* catches it and returns "".  tess_na: ocr_image has no handler, the exception
\* leaves main().  deepseek: generate() is tried once more with a smaller
\* max_new_tokens; the second generate() is outside any handler.
OcrPageFails ==
    /\ pc = "ocr"
    /\ ocr_idx < batch_len
    /\ CASE variant = "tess_content" ->
              /\ ocr_idx' = ocr_idx + 1
              /\ ocr_attempt' = 1
              /\ pc' = IF ocr_idx + 1 = batch_len THEN "call" ELSE "ocr"
              /\ UNCHANGED << outcome, abort_cause >>
         [] variant = "deepseek" /\ ocr_attempt = 1 ->
              /\ ocr_attempt' = 2
              /\ UNCHANGED << ocr_idx, pc, outcome, abort_cause >>
         [] OTHER ->
              /\ Abort("ocr_error")
              /\ UNCHANGED << ocr_idx, ocr_attempt >>
    /\ UNCHANGED << configVars, otherVars, total_pages, i, start_page, batch_len, response,
                    cls_calls, pages_in_batch, batch_log, reported,
                    labelled, identified_pages, tailVars >>

\* the request carries one "--- PAGE n ---" label per page of the batch;
\* client.chat.completions.create returns or raises; json.loads parses or raises
BackendReturns ==
    /\ pc = "call"
    /\ \E r \in Outcomes(variant, total_pages, MaxMatches - reported) :
          /\ response' = r
          /\ reported' = reported + Len(r.matches)
    /\ labelled' = labelled \o LabelsOf(start_page, batch_len)
    /\ cls_calls' = cls_calls + 1
    /\ pc' = "parse"
    /\ UNCHANGED << configVars, otherVars, total_pages, i, start_page, batch_len, ocr_idx,
                    ocr_attempt, pages_in_batch, batch_log, identified_pages,
                    tailVars, outcome, abort_cause >>

\* the rest of analyze_batch, then identified_pages.extend(pages_in_batch) and
\* the loop's next offset
ParseBatch ==
    /\ pc = "parse"
    /\ LET pages == AnalyzeBatchReturn(variant, response) IN
          /\ pages_in_batch' = pages
          /\ identified_pages' = ExtendPages(identified_pages, pages)
          /\ batch_log' = [batch_log EXCEPT ![Len(batch_log)] =
                              [@ EXCEPT !.kind = response.kind, !.pages = pages]]
    /\ i' = NextOffset(i, BATCH_SIZE)
    /\ pc' = "loop"
    /\ UNCHANGED << configVars, otherVars, total_pages, start_page, batch_len, ocr_idx,
                    ocr_attempt, response, cls_calls, reported, labelled,
                    tailVars, outcome, abort_cause >>

\* final_pages = sorted(set(identified_pages)); if it is empty, "No matching
\* pages found."; otherwise open the reader and the writer
Finalize ==
    /\ pc = "finalize"
    /\ IF SortedRaises(identified_pages)
       THEN /\ Abort("sorted_type_error")
            /\ UNCHANGED << final_pages, finalized >>
       ELSE /\ final_pages' = SortedSet(identified_pages)
            /\ finalized' = TRUE
            /\ IF SortedSet(identified_pages) = << >>
               THEN /\ pc' = "done"
                    /\ outcome' = "no_matches"
               ELSE /\ pc' = "copy"
                    /\ UNCHANGED outcome
            /\ UNCHANGED abort_cause
    /\ UNCHANGED << configVars, otherVars, total_pages, i, batchVars, identified_pages,
                    copy_idx, writer_pages, file_written, output_pages >>

\* one iteration of the copy loop
CopyPage ==
    /\ pc = "copy"
    /\ copy_idx < Len(final_pages)
    /\ LET step == CopyStep(variant, final_pages[copy_idx + 1], total_pages, doc_pages) IN
          CASE step.act = "add" ->
                 /\ writer_pages' = Append(writer_pages, step.src)
                 /\ copy_idx' = copy_idx + 1
                 /\ UNCHANGED << pc, outcome, abort_cause >>
            [] step.act = "skip" ->
                 /\ copy_idx' = copy_idx + 1
                 /\ UNCHANGED << writer_pages, pc, outcome, abort_cause >>
            [] step.act = "type_error" ->
                 /\ Abort("copy_type_error")
                 /\ UNCHANGED << writer_pages, copy_idx >>
            [] step.act = "index_error" ->
                 /\ Abort("copy_index_error")
                 /\ UNCHANGED << writer_pages, copy_idx >>
    /\ UNCHANGED << configVars, otherVars, total_pages, i, batchVars, identified_pages,
                    final_pages, finalized, file_written, output_pages >>

\* the copy loop is over: open(output_path, "wb") and writer.write(f)
WriteOutput ==
    /\ pc = "copy"
    /\ copy_idx = Len(final_pages)
    /\ file_written' = TRUE
    /\ output_pages' = writer_pages
    /\ pc' = "done"
    /\ outcome' = "output_written"
    /\ UNCHANGED << configVars, otherVars, total_pages, i, batchVars, identified_pages,
                    final_pages, finalized, copy_idx, writer_pages, abort_cause >>

Next ==
    \/ InputMissing
    \/ ConvertPdf
    \/ RangeStepZero
    \/ StartBatch
    \/ ExitLoop
    \/ OcrPageOk
    \/ OcrPageFails
    \/ BackendReturns
    \/ ParseBatch
    \/ Finalize
    \/ CopyPage
    \/ WriteOutput

Spec == Init /\ [][Next]_vars

\* main() is one sequential program: its next statement is always executed,
\* and every OCR or backend call it waits for returns or raises
LiveSpec == Spec /\ WF_vars(Next)

-----------------------------------------------------------------------------
(* The aggregation of main(), on per-batch page lists given in advance *)

\* the page values a batch's list may hold
AggVals == {StrVal} \cup {IntVal(p) : p \in 1..MaxPages}

\* the ways to cut a list of n entries into k consecutive, possibly empty, lists
Cuts(k, n) ==
    {c \in [1..k -> 0..n] :
        /\ \A j \in 1..(k - 1) : c[j] <= c[j + 1]
        /\ IF k = 0 THEN n = 0 ELSE c[k] = n}

ListsOf(flat, c) ==
    [j \in 1..Len(c) |-> SubSeq(flat, (IF j = 1 THEN 0 ELSE c[j - 1]) + 1, c[j])]

\* sorted(set(identified_pages)), or the TypeError it raises
FinalizeResult(identified) ==
    IF SortedRaises(identified) THEN [raised |-> TRUE, pages |-> << >>]
    ELSE [raised |-> FALSE, pages |-> SortedSet(identified)]

AggInit ==
    /\ MainOff
    /\ SingleOff
    /\ a_pc = "feed"
    /\ \E flat \in SeqsUpTo(AggVals, MaxPages), k \in 0..MaxPages :
          \E c \in Cuts(k, Len(flat)) : a_lists = ListsOf(flat, c)
    /\ a_order = << >>
    /\ a_pos = 0
    /\ a_nat = << >>
    /\ a_perm = << >>
    /\ a_twice = << >>
    /\ a_fin_nat = NoResult
    /\ a_fin_perm = NoResult
    /\ a_fin_twice = NoResult

aggMainVars == << configVars, pc, total_pages, i, batchVars, identified_pages,
                  tailVars, outcome, abort_cause >>

\* identified_pages.extend(pages): the next batch in the given order, and any
\* batch not yet added in the permuted order
AggExtend ==
    /\ a_pc = "feed"
    /\ a_pos < Len(a_lists)
    /\ \E j \in (1..Len(a_lists)) \ Range(a_order) :
          /\ a_perm' = ExtendPages(a_perm, a_lists[j])
          /\ a_order' = Append(a_order, j)
    /\ a_nat' = ExtendPages(a_nat, a_lists[a_pos + 1])
    /\ a_twice' = ExtendPages(a_twice, a_lists[a_pos + 1])
    /\ a_pos' = a_pos + 1
    /\ UNCHANGED << aggMainVars, singleVars, a_pc, a_lists, a_fin_nat, a_fin_perm,
                    a_fin_twice >>

\* every batch was added once: start the second pass
AggSecondPass ==
    /\ a_pc = "feed"
    /\ a_pos = Len(a_lists)
    /\ a_pc' = "again"
    /\ a_pos' = 0
    /\ UNCHANGED << aggMainVars, singleVars, a_lists, a_order, a_nat, a_perm, a_twice,
                    a_fin_nat, a_fin_perm, a_fin_twice >>

\* identified_pages.extend(pages) with a list that was already added
AggExtendAgain ==
    /\ a_pc = "again"
    /\ a_pos < Len(a_lists)
    /\ a_twice' = ExtendPages(a_twice, a_lists[a_pos + 1])
    /\ a_pos' = a_pos + 1
    /\ UNCHANGED << aggMainVars, singleVars, a_pc, a_lists, a_order, a_nat, a_perm,
                    a_fin_nat, a_fin_perm, a_fin_twice >>

\* final_pages = sorted(set(identified_pages)) of each aggregate
AggFinalize ==
    /\ a_pc = "again"
    /\ a_pos = Len(a_lists)
    /\ a_fin_nat' = FinalizeResult(a_nat)
    /\ a_fin_perm' = FinalizeResult(a_perm)
    /\ a_fin_twice' = FinalizeResult(a_twice)
    /\ a_pc' = "done"
    /\ UNCHANGED << aggMainVars, singleVars, a_lists, a_order, a_pos, a_nat, a_perm,
                    a_twice >>

AggNext ==
    \/ AggExtend
    \/ AggSecondPass
    \/ AggExtendAgain
    \/ AggFinalize

AggSpec == AggInit /\ [][AggNext]_vars

-----------------------------------------------------------------------------
(* The single-call scripts: mistral-extract_na_docs.py, gpt-4o-extract_*.py *)

Scripts == {"mistral", "gpt4o"}

\* the entries a 'matches' list may hold
SingleEntries(n) == [page : PageVals(n), fields : {ShapeNA, {}}]

SingleOutcomes(n) ==
    {[kind |-> "raise", matches |-> << >>], [kind |-> "badjson", matches |-> << >>]}
    \cup {[kind |-> "json", matches |-> ms] : ms \in SeqsUpTo(SingleEntries(n), MaxMatches)}

\* 1 <= m['page'] <= total_pages, for an integer page
InRange(p, n) == IsInt(p) /\ 1 <= p.v /\ p.v <= n

\* the in-range integer pages of the entries
InRangePages(ms, n) == {ms[k].page.v : k \in {j \in 1..Len(ms) : InRange(ms[j].page, n)}}

\* "if not markdown_text" would let the empty string through
NotMarkdownNoneOnly(markdown) == markdown = "none"

\* main: "if not markdown_text": None and "" are both false
NotMarkdown(markdown) == markdown \in {"none", "empty"}

\* analyze_with_openai's loop raises at m['page'] (KeyError), at the
\* comparison of a str with an int (TypeError), or, for an in-range page, at
\* m['country_detected'] / m['doc_type'] (KeyError)
MistralEntryRaises(m, n) ==
    \/ m.page \in {Missing, StrVal}
    \/ InRange(m.page, n) /\ ~(ShapeNA \subseteq m.fields)

\* an analyze_with_openai without the range test
AnalyzeWithOpenaiNoRange(r, n) ==
    IF r.kind # "json" THEN << >>
    ELSE IF \E k \in 1..Len(r.matches) : MistralEntryRaises(r.matches[k], n) THEN << >>
    ELSE SortedSeqOf({r.matches[k].page.v : k \in 1..Len(r.matches)})

\* the value analyze_with_openai returns: [] from the except branch, else
\* sorted(list(set(valid_pages)))
AnalyzeWithOpenai(r, n) ==
    IF r.kind # "json" THEN << >>
    ELSE IF \E k \in 1..Len(r.matches) : MistralEntryRaises(r.matches[k], n) THEN << >>
    ELSE SortedSeqOf(InRangePages(r.matches, n))

\* extract_pages: the set comprehension raises at m["page"] (KeyError) or at
\* the comparison of a str with an int (TypeError), outside any handler
ExtractPagesRaises(ms) == \E k \in 1..Len(ms) : ms[k].page \in {Missing, StrVal}

SingleInit ==
    /\ MainOff
    /\ AggOff
    /\ s_script \in Scripts
    /\ s_input_exists \in BOOLEAN
    /\ s_doc_pages \in 0..MaxPages
    /\ s_pc = "start"
    /\ s_markdown = "none"
    /\ s_total_pages = 0
    /\ s_response = NoResponse
    /\ s_calls = 0
    /\ s_pages = << >>
    /\ s_copy_idx = 0
    /\ s_writer_pages = << >>
    /\ s_file_written = FALSE
    /\ s_output_pages = << >>
    /\ s_outcome = "running"
    /\ s_cause = "none"

singleMainVars == << configVars, pc, total_pages, i, batchVars, identified_pages,
                     tailVars, outcome, abort_cause >>
singleConfig == << s_script, s_input_exists, s_doc_pages >>
singleTail == << s_copy_idx, s_writer_pages, s_file_written, s_output_pages >>

\* an uncaught exception leaves main()
SingleAbort(cause) ==
    /\ s_pc' = "done"
    /\ s_outcome' = "aborted"
    /\ s_cause' = cause

\* the input file is missing.  mistral: print and return.  gpt4o: there is no
\* test; open(INPUT_PDF, "rb") raises FileNotFoundError before files.create
SingleInputMissing ==
    /\ s_pc = "start"
    /\ ~s_input_exists
    /\ IF s_script = "mistral"
       THEN /\ s_pc' = "done"
            /\ s_outcome' = "input_missing"
            /\ UNCHANGED s_cause
       ELSE SingleAbort("file_not_found")
    /\ UNCHANGED << singleMainVars, aggVars, singleConfig, s_markdown, s_total_pages,
                    s_response, s_calls, s_pages, singleTail >>

\* get_mistral_markdown returns full_markdown and len(ocr_response.pages):
\* one "--- PAGE n ---" block per page, the empty string for zero pages
GetMistralMarkdownReturns ==
    /\ s_pc = "start"
    /\ s_script = "mistral"
    /\ s_input_exists
    /\ \E n \in 0..MaxPages :
          /\ s_total_pages' = n
          /\ s_markdown' = IF n = 0 THEN "empty" ELSE "text"
    /\ s_pc' = "ocr_done"
    /\ UNCHANGED << singleMainVars, aggVars, singleConfig, s_response, s_calls, s_pages,
                    singleTail, s_outcome, s_cause >>

\* get_mistral_markdown: any exception is caught: return None, 0
GetMistralMarkdownFails ==
    /\ s_pc = "start"
    /\ s_script = "mistral"
    /\ s_input_exists
    /\ s_total_pages' = 0
    /\ s_markdown' = "none"
    /\ s_pc' = "ocr_done"
    /\ UNCHANGED << singleMainVars, aggVars, singleConfig, s_response, s_calls, s_pages,
                    singleTail, s_outcome, s_cause >>

\* main: if not markdown_text: return
CheckMarkdown ==
    /\ s_pc = "ocr_done"
    /\ IF NotMarkdown(s_markdown)
       THEN /\ s_pc' = "done"
            /\ s_outcome' = IF s_markdown = "none" THEN "ocr_failed" ELSE "no_text"
       ELSE /\ s_pc' = "call"
            /\ UNCHANGED s_outcome
    /\ UNCHANGED << singleMainVars, aggVars, singleConfig, s_markdown, s_total_pages,
                    s_response, s_calls, s_pages, singleTail, s_cause >>

\* gpt4o main: open the PDF and upload it
UploadPdf ==
    /\ s_pc = "start"
    /\ s_script = "gpt4o"
    /\ s_input_exists
    /\ s_pc' = "call"
    /\ UNCHANGED << singleMainVars, aggVars, singleConfig, s_markdown, s_total_pages,
                    s_response, s_calls, s_pages, singleTail, s_outcome, s_cause >>

\* the one classification call returns or raises; json.loads parses or raises
SingleBackendReturns ==
    /\ s_pc = "call"
    /\ \E r \in SingleOutcomes(IF s_script = "mistral" THEN s_total_pages ELSE s_doc_pages) :
          s_response' = r
    /\ s_calls' = s_calls + 1
    /\ s_pc' = "parse"
    /\ UNCHANGED << singleMainVars, aggVars, singleConfig, s_markdown, s_total_pages,
                    s_pages, singleTail, s_outcome, s_cause >>

\* mistral: the rest of analyze_with_openai; target_pages is what it returns
AnalyzeReturns ==
    /\ s_pc = "parse"
    /\ s_script = "mistral"
    /\ s_pages' = AnalyzeWithOpenai(s_response, s_total_pages)
    /\ s_pc' = "split"
    /\ UNCHANGED << singleMainVars, aggVars, singleConfig, s_markdown, s_total_pages,
                    s_response, s_calls, singleTail, s_outcome, s_cause >>

\* gpt4o main: an exception of the API or of json.loads is not caught
MainRaises ==
    /\ s_pc = "parse"
    /\ s_script = "gpt4o"
    /\ s_response.kind # "json"
    /\ SingleAbort(IF s_response.kind = "raise" THEN "api_error" ELSE "json_error")
    /\ UNCHANGED << singleMainVars, aggVars, singleConfig, s_markdown, s_total_pages,
                    s_response, s_calls, s_pages, singleTail >>

\* gpt4o extract_pages: total_pages = len(reader.pages); pages = sorted({...});
\* if empty, "No valid pages to extract."
ExtractPages ==
    /\ s_pc = "parse"
    /\ s_script = "gpt4o"
    /\ s_response.kind = "json"
    /\ s_total_pages' = s_doc_pages
    /\ IF ExtractPagesRaises(s_response.matches)
       THEN /\ SingleAbort("page_error")
            /\ UNCHANGED s_pages
       ELSE /\ s_pages' = SortedSeqOf(InRangePages(s_response.matches, s_doc_pages))
            /\ IF InRangePages(s_response.matches, s_doc_pages) = {}
               THEN /\ s_pc' = "done"
                    /\ s_outcome' = "no_matches"
               ELSE /\ s_pc' = "copy"
                    /\ UNCHANGED s_outcome
            /\ UNCHANGED s_cause
    /\ UNCHANGED << singleMainVars, aggVars, singleConfig, s_markdown, s_response,
                    s_calls, singleTail >>

\* mistral split_and_save_pdf: if not pages_to_keep, "No matching pages found
\* to extract."; otherwise open the reader and the writer
SplitAndSavePdf ==
    /\ s_pc = "split"
    /\ IF s_pages = << >>
       THEN /\ s_pc' = "done"
            /\ s_outcome' = "no_matches"
       ELSE /\ s_pc' = "copy"
            /\ UNCHANGED s_outcome
    /\ UNCHANGED << singleMainVars, aggVars, singleConfig, s_markdown, s_total_pages,
                    s_response, s_calls, s_pages, singleTail, s_cause >>

\* one iteration of the copy loop: writer.add_page(reader.pages[p - 1]);
\* mistral catches the IndexError of a page the PDF does not have
SingleCopyPage ==
    /\ s_pc = "copy"
    /\ s_copy_idx < Len(s_pages)
    /\ LET src == PdfPageAt(s_pages[s_copy_idx + 1] - 1, s_doc_pages) IN
          IF src = 0
          THEN IF s_script = "mistral"
               THEN /\ s_copy_idx' = s_copy_idx + 1
                    /\ UNCHANGED << s_writer_pages, s_pc, s_outcome, s_cause >>
               ELSE /\ SingleAbort("copy_index_error")
                    /\ UNCHANGED << s_writer_pages, s_copy_idx >>
          ELSE /\ s_writer_pages' = Append(s_writer_pages, src)
               /\ s_copy_idx' = s_copy_idx + 1
               /\ UNCHANGED << s_pc, s_outcome, s_cause >>
    /\ UNCHANGED << singleMainVars, aggVars, singleConfig, s_markdown, s_total_pages,
                    s_response, s_calls, s_pages, s_file_written, s_output_pages >>

\* the copy loop is over: open(output_path, "wb") and writer.write(f)
SingleWriteOutput ==
    /\ s_pc = "copy"
    /\ s_copy_idx = Len(s_pages)
    /\ s_file_written' = TRUE
    /\ s_output_pages' = s_writer_pages
    /\ s_pc' = "done"
    /\ s_outcome' = "output_written"
    /\ UNCHANGED << singleMainVars, aggVars, singleConfig, s_markdown, s_total_pages,
                    s_response, s_calls, s_pages, s_copy_idx, s_writer_pages, s_cause >>

SingleNext ==
    \/ SingleInputMissing
    \/ GetMistralMarkdownReturns
    \/ GetMistralMarkdownFails
    \/ CheckMarkdown
    \/ UploadPdf
    \/ SingleBackendReturns
    \/ AnalyzeReturns
    \/ MainRaises
    \/ ExtractPages
    \/ SplitAndSavePdf
    \/ SingleCopyPage
    \/ SingleWriteOutput

SingleSpec == SingleInit /\ [][SingleNext]_vars

-----------------------------------------------------------------------------
(* Vocabulary of the properties *)

\* ceil(n / b) for b > 0
CeilDiv(n, b) == (n + b - 1) \div b

\* the batch loop was left through its normal exit
LoopExited ==
    \/ pc \in {"finalize", "copy"}
    \/ outcome \in {"no_matches", "output_written"}
    \/ abort_cause \in {"sorted_type_error", "copy_type_error", "copy_index_error"}

\* p is an integer page number inside the range of the current batch
InBatch(p) == IsInt(p) /\ start_page <= p.v /\ p.v <= start_page + batch_len - 1

\* the batch just parsed is still the current one and its response is at hand
JustParsed == pc = "loop" /\ response.kind = "json"

PagesOf(ms) == [k \in 1..Len(ms) |-> ms[k].page]

\* an entry whose page is missing or is not a number
MalformedPage(m) == m.page \in {Missing, StrVal}

\* an entry with an in-batch integer page and every key the script indexes
WellFormed(m) == InBatch(m.page) /\ RequiredFields(variant) \subseteq m.fields

\* the integer page numbers reported so far that lie in [1, N]
ReportedInRange ==
    {p.v : p \in {q \in Range(identified_pages) : IsInt(q) /\ 1 <= q.v /\ q.v <= total_pages}}

-----------------------------------------------------------------------------
(* C1 *)

\* C1: once final_pages is computed it holds no page number twice and only
\* integer page numbers in [1, total_pages].
C1_FinalPagesInRange ==
    finalized =>
        /\ \A j, k \in 1..Len(final_pages) : j # k => final_pages[j] # final_pages[k]
        /\ \A j \in 1..Len(final_pages) :
              /\ IsInt(final_pages[j])
              /\ 1 <= final_pages[j].v
              /\ final_pages[j].v <= total_pages

(* C2 *)

\* C2: when exactly one entry of a batch's 'matches' has a missing or
\* non-numeric page and every other entry is well formed, the batch parser
\* returns the pages of the other entries, in order, and drops only that one.
C2_OnlyMalformedEntryDropped ==
    ( /\ JustParsed
      /\ Cardinality({k \in 1..Len(response.matches) : MalformedPage(response.matches[k])}) = 1
      /\ \A k \in 1..Len(response.matches) :
            MalformedPage(response.matches[k]) \/ WellFormed(response.matches[k]) )
    => pages_in_batch = PagesOf(SelectSeq(response.matches, WellFormed))

(* C3 *)

\* C3: a batch whose call raises or whose payload is not JSON contributes no
\* page; the loop still runs every batch of the document; and once
\* final_pages is computed it contains every page the batches returned.
C3_FailedBatchIsolated ==
    /\ \A k \in 1..Len(batch_log) :
          batch_log[k].kind \in {"raise", "badjson"} => batch_log[k].pages = << >>
    /\ (LoopExited /\ BATCH_SIZE > 0) =>
          /\ Len(batch_log) = CeilDiv(total_pages, BATCH_SIZE)
          /\ \A k \in 1..Len(batch_log) : batch_log[k].kind # "pending"
    /\ finalized =>
          \A k \in 1..Len(batch_log) : Range(batch_log[k].pages) \subseteq Range(final_pages)

\* three batches, the second one's call raised, the first and the third each
\* returned their own page, and both pages are in final_pages and in the file
C3_Witness ==
    /\ finalized
    /\ Len(batch_log) = 3
    /\ batch_log[2].kind = "raise"
    /\ batch_log[1].pages = << IntVal(1) >>
    /\ batch_log[3].pages = << IntVal(3) >>
    /\ final_pages = << IntVal(1), IntVal(3) >>
    /\ file_written
    /\ output_pages = << 1, 3 >>

(* C4 *)

\* C4: a written output file never holds zero pages, and a run that passes
\* the batch loop without any batch yielding an integer page in [1, N] ends
\* in 'no matches' with no file written.
C4_NoValidVerdictNoFile ==
    /\ file_written => Len(output_pages) > 0
    /\ (pc = "done" /\ LoopExited /\ ReportedInRange = {}) =>
          (outcome = "no_matches" /\ ~file_written)

(* C5 *)

\* C5: every page the copy loop adds is a reported page number in [1, N],
\* and the written file's pages are exactly final_pages, in ascending order.
C5_OutputIsMatchSet ==
    /\ \A j \in 1..Len(writer_pages) : writer_pages[j] \in ReportedInRange
    /\ file_written =>
          /\ Len(output_pages) = Len(final_pages)
          /\ \A j \in 1..Len(output_pages) :
                IsInt(final_pages[j]) /\ output_pages[j] = final_pages[j].v
          /\ \A j \in 1..(Len(output_pages) - 1) : output_pages[j] < output_pages[j + 1]

(* C6 *)

\* C6: for a batch size B > 0 the loop's batches are contiguous from page 1,
\* each of length B except possibly the last, and when the loop is left there
\* are ceil(N/B) of them covering every page of [1, N] exactly once.
C6_BatchesPartitionPages ==
    BATCH_SIZE > 0 =>
        /\ \A k \in 1..Len(batch_log) :
              /\ batch_log[k].start = IF k = 1 THEN 1
                                      ELSE batch_log[k - 1].start + batch_log[k - 1].len
              /\ 1 <= batch_log[k].len
              /\ batch_log[k].len <= BATCH_SIZE
              /\ k < Len(batch_log) => batch_log[k].len = BATCH_SIZE
        /\ LoopExited =>
              /\ Len(batch_log) = CeilDiv(total_pages, BATCH_SIZE)
              /\ \A p \in 1..total_pages :
                    Cardinality({k \in 1..Len(batch_log) :
                                   /\ batch_log[k].start <= p
                                   /\ p <= batch_log[k].start + batch_log[k].len - 1}) = 1
              /\ \A k \in 1..Len(batch_log) :
                    batch_log[k].start + batch_log[k].len - 1 <= total_pages

\* the loop was left after two batches, the last one shorter than BATCH_SIZE
C6_Witness ==
    /\ pc = "finalize"
    /\ BATCH_SIZE > 1
    /\ Len(batch_log) = 2
    /\ batch_log[2].len < BATCH_SIZE

(* C7 *)

\* C7: every page number of the document, in [1, N], that a batch's parse
\* returned, and so added to identified_pages, lies inside that batch's own
\* page range: a page of another batch is dropped.
C7_OutOfBatchDropped ==
    \A k \in 1..Len(batch_log) :
        \A j \in 1..Len(batch_log[k].pages) :
            LET p == batch_log[k].pages[j] IN
            (IsInt(p) /\ 1 <= p.v /\ p.v <= total_pages) =>
                /\ batch_log[k].start <= p.v
                /\ p.v <= batch_log[k].start + batch_log[k].len - 1

(* C8 *)

\* C8: no content of a response ends the run with an uncaught exception: the
\* run never aborts in sorted(set(...)) or in the copy loop.
C8_ResponseNeverAborts ==
    abort_cause \notin {"sorted_type_error", "copy_type_error", "copy_index_error"}

(* C9 *)

\* C9: in the deepseek script a failed OCR call never ends the run, and a
\* classification call that raised was made a second time before the batch
\* degraded to zero matches.
C9_RetryThenDegrade ==
    variant = "deepseek" =>
        /\ abort_cause # "ocr_error"
        /\ (pc = "loop" /\ response.kind = "raise") => cls_calls = 2

(* C10 *)

\* C10: a response whose entries all carry an in-batch integer page and the
\* evidence keys the script's own prompt asks for is accepted whole: the
\* parser returns the page of every entry.
C10_EvidenceOptional ==
    ( /\ JustParsed
      /\ \A k \in 1..Len(response.matches) :
            /\ InBatch(response.matches[k].page)
            /\ response.matches[k].fields = PromptFields(variant) )
    => pages_in_batch = PagesOf(response.matches)

(* C11 *)

\* C11: the per-batch page lists added in any permutation give the same
\* sorted(set(...)) as in the given order: the same final_pages, or the same
\* TypeError.
C11_OrderIndependent ==
    a_pc = "done" => a_fin_perm = a_fin_nat

\* three batches added in a cyclically shifted order, aggregates that differ,
\* one final list
C11_Witness ==
    /\ a_pc = "done"
    /\ a_order = << 2, 3, 1 >>
    /\ a_nat = << IntVal(3), IntVal(1), IntVal(2) >>
    /\ a_perm = << IntVal(1), IntVal(2), IntVal(3) >>
    /\ a_fin_perm.pages = << IntVal(1), IntVal(2), IntVal(3) >>

(* C12 *)

\* C12: adding every list a second time gives the same sorted(set(...)) as
\* adding it once, and no value occurs twice in final_pages.
C12_Idempotent ==
    a_pc = "done" =>
        /\ a_fin_twice = a_fin_nat
        /\ \A j, k \in 1..Len(a_fin_nat.pages) :
              a_fin_nat.pages[j] = a_fin_nat.pages[k] => j = k

\* a page twice within one batch and once more in another batch, all added
\* twice
C12_Witness ==
    /\ a_pc = "done"
    /\ a_lists = << << IntVal(2), IntVal(2) >>, << IntVal(2) >> >>
    /\ Len(a_twice) = 2 * Len(a_nat)
    /\ a_fin_twice.pages = << IntVal(2) >>

(* C13 *)

\* C13: with a batch size <= 0 the run makes no backend call, writes no
\* output, and never ends in the ordinary "no matches" or "output written"
\* state.
C13_BadBatchSizeRejected ==
    BATCH_SIZE <= 0 =>
        /\ batch_log = << >>
        /\ reported = 0
        /\ ~file_written
        /\ outcome \notin {"no_matches", "output_written"}

(* C14 *)

\* the concatenation of the page lists the batches returned
RECURSIVE FlattenPages(_)
FlattenPages(log) ==
    IF log = << >> THEN << >>
    ELSE FlattenPages(SubSeq(log, 1, Len(log) - 1)) \o log[Len(log)].pages

\* every batch the loop started has been parsed
AllBatchesProcessed == \A k \in 1..Len(batch_log) : batch_log[k].kind # "pending"

\* a file exists only after the loop was left, every batch was processed and
\* the copy loop reached the end of final_pages; an aborted run has no file
WrittenOnlyAtEnd ==
    /\ file_written =>
          /\ pc = "done"
          /\ outcome = "output_written"
          /\ finalized
          /\ AllBatchesProcessed
          /\ BATCH_SIZE > 0 => Len(batch_log) = CeilDiv(total_pages, BATCH_SIZE)
          /\ copy_idx = Len(final_pages)
          /\ output_pages = writer_pages
    /\ outcome = "aborted" => ~file_written

\* C14: the output file is written at most once, only after every batch has
\* been processed and every selected page has been copied; a run that aborts
\* leaves no file; and a written file holds every member of final_pages.
C14_AllOrNothing ==
    /\ WrittenOnlyAtEnd
    /\ file_written => Range(final_pages) \subseteq {IntVal(q) : q \in Range(output_pages)}

(* C15 *)

\* C15: when the input file is missing nothing is rasterized, no batch is
\* started, no backend call is made and no file is written: the run is before
\* its first statement or has returned with "input_missing".
C15_MissingInputStops ==
    ~input_exists =>
        /\ pc \in {"start", "done"}
        /\ pc = "done" => outcome = "input_missing"
        /\ total_pages = 0
        /\ batch_log = << >>
        /\ labelled = << >>
        /\ reported = 0
        /\ cls_calls = 0
        /\ ~file_written

\* the run of a script on a missing input has returned
C15_Witness ==
    /\ ~input_exists
    /\ doc_pages > 0
    /\ pc = "done"
    /\ outcome = "input_missing"

(* C16 *)

\* the labels of the batches whose request has been sent
RECURSIVE LabelsSent(_)
LabelsSent(log) ==
    IF log = << >> THEN << >>
    ELSE LET last == log[Len(log)] IN
         LabelsSent(SubSeq(log, 1, Len(log) - 1))
            \o (IF last.kind = "pending" /\ pc # "parse" THEN << >>
                ELSE LabelsOf(last.start, last.len))

\* C16: batches are processed one after the other in ascending page order: at
\* most one batch is unfinished, it is the last one started, and every earlier
\* batch's page list is already in identified_pages; each batch's request is
\* sent once, its pages labelled start_page + index; and, for a batch size
\* B > 0, when the loop is left every page number 1..N was labelled exactly
\* once, in ascending order.
C16_SequentialBatches ==
    /\ \A k \in 1..Len(batch_log) :
          batch_log[k].kind = "pending" =>
              /\ k = Len(batch_log)
              /\ pc \in {"ocr", "call", "parse", "done"}
    /\ \A k \in 2..Len(batch_log) : batch_log[k - 1].start < batch_log[k].start
    /\ identified_pages = FlattenPages(batch_log)
    /\ cls_calls <= 1
    /\ pc \in {"ocr", "call"} => cls_calls = 0
    /\ (pc \in {"parse", "loop"} /\ batch_log # << >>) => cls_calls = 1
    /\ labelled = LabelsSent(batch_log)
    /\ (BATCH_SIZE > 0 /\ LoopExited) => labelled = [p \in 1..total_pages |-> p]

\* the loop was left after two batches and three labelled pages
C16_Witness ==
    /\ pc = "finalize"
    /\ Len(batch_log) = 2
    /\ labelled = << 1, 2, 3 >>
    /\ identified_pages # << >>

(* C17 *)

\* C17: the parser returns the page of every entry of the response, in the
\* response's order, or the empty list; a batch whose call or parse failed
\* returned the empty list, and identified_pages is the concatenation of what
\* the batches returned, so a failing batch leaves it as it was.
C17_BatchAllOrNothing ==
    /\ (pc = "loop" /\ response # NoResponse) =>
          pages_in_batch \in {<< >>, PagesOf(response.matches)}
    /\ \A k \in 1..Len(batch_log) :
          batch_log[k].kind \in {"raise", "badjson"} => batch_log[k].pages = << >>
    /\ identified_pages = FlattenPages(batch_log)

\* the second batch's only entry made the parser fail; the first batch's page
\* is still the aggregate
C17_Witness ==
    /\ pc = "loop"
    /\ Len(batch_log) = 2
    /\ batch_log[1].pages = << IntVal(1) >>
    /\ response.kind = "json"
    /\ Len(response.matches) = 1
    /\ EntryRaises(variant, response.matches[1])
    /\ pages_in_batch = << >>
    /\ identified_pages = << IntVal(1) >>

(* C18 *)

\* analyze_with_openai has returned
Analyzed == s_script = "mistral" /\ s_pc \in {"split", "copy", "done"} /\ s_calls = 1

\* C18: the list analyze_with_openai returns is strictly ascending and lies in
\* [1, total_pages]; when the call, the parse or an entry raised it is empty;
\* otherwise it holds every in-range page of the entries, the out-of-range
\* integer pages alone being left out.
C18_AnalyzeSortedInRange ==
    Analyzed =>
        /\ \A k \in 1..Len(s_pages) : 1 <= s_pages[k] /\ s_pages[k] <= s_total_pages
        /\ \A k \in 1..(Len(s_pages) - 1) : s_pages[k] < s_pages[k + 1]
        /\ IF \/ s_response.kind # "json"
              \/ \E k \in 1..Len(s_response.matches) :
                    MistralEntryRaises(s_response.matches[k], s_total_pages)
           THEN s_pages = << >>
           ELSE Range(s_pages) = InRangePages(s_response.matches, s_total_pages)

\* of two entries the one beyond the last page is ignored, the other is kept
C18_Witness ==
    /\ Analyzed
    /\ s_total_pages = 2
    /\ s_response.kind = "json"
    /\ Len(s_response.matches) = 2
    /\ s_response.matches[1].page = IntVal(3)
    /\ s_response.matches[2] = [page |-> IntVal(2), fields |-> ShapeNA]
    /\ s_pages = << 2 >>

(* C19 *)

\* extract_pages was called and main() is over
Extracted == s_script = "gpt4o" /\ s_pc = "done" /\ s_response.kind = "json"

\* C19: extract_pages writes a file if and only if an entry of matches has a
\* page in [1, total_pages]; the file holds the distinct in-range pages in
\* ascending order; with no in-range entry the run reports no valid pages.
C19_WritesIffInRange ==
    Extracted =>
        LET inr == InRangePages(s_response.matches, s_doc_pages) IN
        /\ s_file_written <=> inr # {}
        /\ s_file_written => s_output_pages = SortedSeqOf(inr)
        /\ inr = {} => s_outcome = "no_matches"

(* C20 *)

\* C20: in the mistral script, when get_mistral_markdown failed or returned no
\* text, analyze_with_openai is never called and nothing is written: the run
\* is at most at main's test of markdown_text, or over.
C20_NoTextNoCall ==
    (s_script = "mistral" /\ s_markdown \in {"none", "empty"}) =>
        /\ s_pc \in {"start", "ocr_done", "done"}
        /\ s_calls = 0
        /\ s_response = NoResponse
        /\ ~s_file_written
        /\ s_outcome \in {"running", "input_missing", "ocr_failed", "no_text"}

\* the OCR of an existing PDF returned zero pages and main() returned
C20_Witness ==
    /\ s_script = "mistral"
    /\ s_input_exists
    /\ s_doc_pages > 0
    /\ s_markdown = "empty"
    /\ s_pc = "done"
    /\ s_outcome = "no_text"

(* C21 *)

\* main() reaches its end, by a return or by an uncaught exception
RunEnds == <>(pc = "done")

\* C21: on an existing document and with a batch size B > 0 the run ends, after
\* exactly ceil(N/B) batch iterations, in "output written" or "no matches".
C21_TerminatesInOneOutcome ==
    (BATCH_SIZE > 0 /\ input_exists) =>
        <>[]( /\ pc = "done"
              /\ outcome \in {"output_written", "no_matches"}
              /\ Len(batch_log) = CeilDiv(total_pages, BATCH_SIZE)
              /\ AllBatchesProcessed )

====
